---- MODULE Spec2Model ----
(***************************************************************************)
(* SpamNoMore: DNS record classification (app/modules/dns.py), trust       *)
(* scoring (app/modules/scoring.py) and suggestion generation              *)
(* (app/modules/actions.py), driven as scan_domain drives them             *)
(* (app/main.py).                                                          *)
(*                                                                         *)
(* Text.  A Python str is a sequence of lexemes (words, "=", ";", " ",     *)
(* the quote character).  lower() maps every lexeme through LowerLex,      *)
(* `in` is the search for a contiguous run of lexemes, startswith and      *)
(* endswith compare a prefix or suffix, split and strip work on lexemes,   *)
(* and Str glues the lexemes into a TLA+ string wherever the code keeps    *)
(* or compares a whole string.  queries is the log of the calls of         *)
(* resolver.resolve: the name and type asked for and how the call ended.   *)
(* Python's None, where a str is expected,                                 *)
(* is the string "None": lower-cased parsing can never produce it.         *)
(* String literals are the source's, with its long dash written "-".       *)
(* A percentage is kept in tenths of a percent (750 is 75.0).              *)
(***************************************************************************)
EXTENDS Integers, Sequences, FiniteSets, TLC

VARIABLES pc, domain, queries, dns_results, headers, body, scores, suggestions, ret, limit

vars == <<pc, domain, queries, dns_results, headers, body, scores, suggestions, ret, limit>>

None == "None"

-----------------------------------------------------------------------------
(* Bounds of the model *)

\* longest TXT answer the resolver returns for one name
MaxTxt == 2
\* most MX records in one answer that are not outbound relays
MaxMx == 6
\* how many of the probed DKIM selectors may hold a record
MaxDkimHits == 2
\* most configured spam keywords a body contains
MaxKeywords == 6
\* largest limit passed to get_top_suggestions
MaxLimit == 6

-----------------------------------------------------------------------------
(* Python str operations on lexeme sequences *)

\* str.lower(), one lexeme
LowerLex(l) ==
    CASE l = "V" -> "v"
      [] l = "P" -> "p"
      [] l = "SP" -> "sp"
      [] l = "SPF1" -> "spf1"
      [] l = "DMARC1" -> "dmarc1"
      [] l = "DKIM1" -> "dkim1"
      [] l = "REJECT" -> "reject"
      [] l = "Quarantine" -> "quarantine"
      [] l = "SPF" -> "spf"
      [] l = "DKIM" -> "dkim"
      [] l = "DMARC" -> "dmarc"
      [] l = "FAIL" -> "fail"
      [] l = "Pass" -> "pass"
      [] l = "PASS" -> "pass"
      [] l = "Authentication-Results:" -> "authentication-results:"
      [] l = "CLICK HERE" -> "click here"
      [] l = "Act Now" -> "act now"
      [] l = "Limited Time" -> "limited time"
      [] l = "FREE MONEY" -> "free money"
      [] l = "Nigerian Prince" -> "nigerian prince"
      [] l = "WINNER" -> "winner"
      [] l = "Congratulations" -> "congratulations"
      [] l = "URGENT" -> "urgent"
      [] l = "Cash Bonus" -> "cash bonus"
      [] l = "Risk-Free" -> "risk-free"
      [] l = "Satisfaction Guaranteed" -> "satisfaction guaranteed"
      [] l = "Hello" -> "hello"
      [] l = "Example.COM" -> "example.com"
      [] l = "Mail" -> "mail"
      [] l = "GMail.com" -> "gmail.com"
      [] l = "MX" -> "mx"
      [] l = "SMTP.Google.com" -> "smtp.google.com"
      [] OTHER -> l

\* str.lower()
Lower(t) == [i \in 1..Len(t) |-> LowerLex(t[i])]

\* needle in hay
Contains(needle, hay) ==
    \E i \in 0..(Len(hay) - Len(needle)) : SubSeq(hay, i + 1, i + Len(needle)) = needle

\* t.startswith(p)
StartsWith(t, p) == Len(t) >= Len(p) /\ SubSeq(t, 1, Len(p)) = p

\* t.endswith(s)
EndsWith(t, s) == Len(t) >= Len(s) /\ SubSeq(t, Len(t) - Len(s) + 1, Len(t)) = s

RECURSIVE LStrip(_, _)
\* t.lstrip(chars)
LStrip(t, chars) ==
    IF t # <<>> /\ Head(t) \in chars THEN LStrip(Tail(t), chars) ELSE t

RECURSIVE RStrip(_, _)
\* t.rstrip(chars)
RStrip(t, chars) ==
    IF t # <<>> /\ t[Len(t)] \in chars THEN RStrip(SubSeq(t, 1, Len(t) - 1), chars) ELSE t

\* t.strip(chars); strip() without argument strips white space
Strip(t, chars) == RStrip(LStrip(t, chars), chars)

Whitespace == {" "}

RECURSIVE SplitFrom(_, _, _)
\* the pieces of t from lexeme i on, cur being the piece under construction
SplitFrom(t, sep, cur) ==
    IF t = <<>> THEN <<cur>>
    ELSE IF Head(t) = sep THEN <<cur>> \o SplitFrom(Tail(t), sep, <<>>)
    ELSE SplitFrom(Tail(t), sep, Append(cur, Head(t)))

\* t.split(sep)
Split(t, sep) == SplitFrom(t, sep, <<>>)

RECURSIVE Str(_)
\* the lexemes glued into one string
Str(t) == IF t = <<>> THEN "" ELSE Head(t) \o Str(Tail(t))

-----------------------------------------------------------------------------
(* The resolver: what dns.resolver.Resolver.resolve can answer *)

\* the quote character to_text() puts around a TXT string
Q == "\""

\* the exceptions the classifier treats as "record absent"
DnsErrors == {"NXDOMAIN", "NoAnswer", "Timeout"}

\* another exception resolve can raise: every name server answered SERVFAIL
OtherErrors == {"NoNameservers"}

Failed(rcode) == [rcode |-> rcode, rrs |-> <<>>]

Answered(rrs) == [rcode |-> "NOERROR", rrs |-> rrs]

\* all sequences over S of length 1..n
SeqsUpTo(S, n) == UNION {[1..k -> S] : k \in 1..n}

\* TXT strings a domain apex may hold, as to_text() returns them
ApexTxt ==
    { <<Q, "google-site-verification", "=", "abc", Q>>,
      <<Q, "v", "=", "spf1", " ", "include:_spf.google.com", " ", "~all", Q>>,
      <<Q, "V", "=", "SPF1", " ", "redirect", "=", "_spf.example.net", Q>>,
      <<Q, "v", "=", "spf1", " ", "ip4:192.0.2.1", Q>> }

SpfAnswers ==
    {Failed(e) : e \in DnsErrors \cup OtherErrors} \cup {Answered(r) : r \in SeqsUpTo(ApexTxt, MaxTxt)}

\* TXT strings _dmarc.<domain> may hold
DmarcTxt ==
    { <<Q, "v", "=", "spf1", " ", "-all", Q>>,
      <<Q, "v", "=", "DMARC1", ";", " ", "p", "=", "reject", ";", " ", "rua", "=", "mailto:d@x.com", Q>>,
      <<Q, "v", "=", "DMARC1", ";", " ", "P", "=", "Quarantine", Q>>,
      <<Q, "v", "=", "DMARC1", ";", " ", "p", "=", "none", Q>>,
      <<Q, "v", "=", "DMARC1", ";", " ", "p", "=", "none", ";", " ", "rua", "=", "mailto:d@x.com", Q>>,
      <<Q, "v", "=", "DMARC1", ";", " ", "p", "=", "none", ";", " ", "sp", "=", "quarantine", Q>>,
      <<Q, "v", "=", "DMARC1", ";", " ", "p", "=", "none", ";", " ", "sp", "=", "reject", ";", " ",
        "rua", "=", "mailto:d@x.com", Q>>,
      <<Q, "v", "=", "DMARC1", ";", " ", "p", "=", "monitor", Q>>,
      <<Q, "v", "=", "DMARC1", ";", " ", "rua", "=", "mailto:d@x.com", ";", " ", "sp", "=", "reject", Q>> }

DmarcAnswers ==
    {Failed(e) : e \in DnsErrors \cup OtherErrors} \cup {Answered(r) : r \in SeqsUpTo(DmarcTxt, MaxTxt)}

\* dns.py COMMON_DKIM_SELECTORS
COMMON_DKIM_SELECTORS ==
    <<"default", "google", "selector1", "selector2", "mail", "dkim", "email", "smtp", "mx">>

DkimTxt == <<Q, "v", "=", "DKIM1", ";", " ", "k", "=", "rsa", ";", " ", "p", "=", "MIGfMA0G", Q>>

\* a zone whose selectors 2..k+1 hold a DKIM key, whose first selector holds
\* another TXT string, and whose other selectors do not resolve
DkimZone(k) ==
    [i \in 1..Len(COMMON_DKIM_SELECTORS) |->
        IF i = 1 THEN Answered(<<<<Q, "k", "=", "rsa", Q>>>>)
        ELSE IF i <= k + 1 THEN Answered(<<DkimTxt>>)
        ELSE IF i = Len(COMMON_DKIM_SELECTORS) THEN Failed("NoNameservers")
        ELSE IF i % 3 = 0 THEN Failed("NoAnswer")
        ELSE IF i % 3 = 1 THEN Failed("NXDOMAIN")
        ELSE Failed("Timeout")]

\* a zone none of whose selectors resolves
DkimDarkZone ==
    [i \in 1..Len(COMMON_DKIM_SELECTORS) |->
        IF i % 3 = 0 THEN Failed("NoAnswer")
        ELSE IF i % 3 = 1 THEN Failed("NXDOMAIN")
        ELSE Failed("Timeout")]

DkimZones == {DkimZone(k) : k \in 0..MaxDkimHits} \cup {DkimDarkZone}

\* an MX answer of n inbound hosts, least preferred first, behind an outbound
\* relay when relay is TRUE
MxAnswer(n, relay) ==
    Answered((IF relay THEN <<[preference |-> 5, exchange |-> <<"SMTP.Google.com", ".">>]>>
                       ELSE <<>>)
             \o [i \in 1..n |-> [preference |-> 10 * (n + 1 - i),
                                 exchange |-> <<"MX", ToString(i), ".example.com", ".">>]])

MxAnswers ==
    {Failed(e) : e \in DnsErrors \cup OtherErrors}
        \cup ({MxAnswer(n, relay) : n \in 0..MaxMx, relay \in BOOLEAN} \ {MxAnswer(0, FALSE)})

\* the answers a whole scan is driven with: one kind of failure for each lookup,
\* the finding of a failed lookup being the same for every kind
ScanSpfAnswers == {a \in SpfAnswers : a.rcode \in {"NOERROR", "Timeout"}}

ScanDmarcAnswers == {a \in DmarcAnswers : a.rcode \in {"NOERROR", "NXDOMAIN"}}

ScanDkimZones == {DkimZone(k) : k \in 0..MaxDkimHits}

ScanMxAnswers == {a \in MxAnswers : a.rcode \in {"NOERROR", "NoAnswer"}}

-----------------------------------------------------------------------------
(* app/modules/dns.py: DNSChecker *)

\* dns.py ENTERPRISE_DOMAINS
ENTERPRISE_DOMAINS ==
    << <<"gmail.com">>, <<"google.com">>, <<"yahoo.com">>, <<"outlook.com">>,
       <<"hotmail.com">>, <<"icloud.com">> >>

\* DNSChecker.__init__: self.domain
DNSChecker_init(d) == Strip(Lower(d), Whitespace)

is_enterprise_domain(dom) ==
    \E i \in 1..Len(ENTERPRISE_DOMAINS) : EndsWith(dom, ENTERPRISE_DOMAINS[i])

\* list.sort(key=...): Python's sort is stable
StableSort(seq, key) ==
    LET pos(i) == 1 + Cardinality({j \in DOMAIN seq :
                        key[j] < key[i] \/ (key[j] = key[i] /\ j < i)})
    IN  [k \in 1..Len(seq) |-> seq[CHOOSE i \in DOMAIN seq : pos(i) = k]]

RECURSIVE FirstTxt(_, _)
\* the loop of check_spf and check_dmarc: the first TXT string that starts
\* with prefix, <<>> when there is none
FirstTxt(rrs, prefix) ==
    IF rrs = <<>> THEN <<>>
    ELSE LET txt == Strip(Head(rrs), {Q})
         IN  IF StartsWith(Lower(txt), prefix) THEN txt ELSE FirstTxt(Tail(rrs), prefix)

\* one call of self.resolver.resolve(qname, rdtype), as the log keeps it
Query(qname, rdtype, rcode) == [qname |-> qname, rdtype |-> rdtype, rcode |-> rcode]

\* resolve raised an exception that the except clause does not name
Raises(answer, caught) == answer.rcode # "NOERROR" /\ answer.rcode \notin caught

_evaluate_spf(record) ==
    LET r == Lower(record)
        base == [exists |-> TRUE, record |-> Str(record), valid |-> TRUE, notes |-> <<>>]
    IN  IF ~StartsWith(r, <<"v", "=", "spf1">>)
        THEN [base EXCEPT !.valid = FALSE, !.notes = <<"Invalid SPF version">>]
        ELSE IF Contains(<<"redirect", "=">>, r)
        THEN [base EXCEPT !.notes = <<"Redirect-based SPF detected (valid)">>]
        ELSE IF ~\E x \in {"-all", "~all", "?all", "+all"} : Contains(<<x>>, r)
        THEN [base EXCEPT !.valid = FALSE,
                          !.notes = <<"Missing terminal qualifier (-all, ~all, etc.)">>]
        ELSE base

\* a plausible slip: the Timeout left out of the except clause
SpfExceptWithoutTimeout == {"NXDOMAIN", "NoAnswer"}

\* the except clause of check_spf
SpfExcept == {"NXDOMAIN", "NoAnswer", "Timeout"}

check_spf(answer) ==
    IF answer.rcode \in SpfExcept
    THEN [exists |-> FALSE, record |-> None, valid |-> FALSE,
          notes |-> <<"DNS error while fetching SPF">>]
    ELSE LET spf_record == FirstTxt(answer.rrs, <<"v", "=", "spf1">>)
         IN  IF spf_record = <<>>
             THEN [exists |-> FALSE, record |-> None, valid |-> FALSE,
                   notes |-> <<"No SPF record found">>]
             ELSE _evaluate_spf(spf_record)

RECURSIVE ExtractFrom(_, _)
\* the loop of extract(key) over r.split(";")
ExtractFrom(parts, key) ==
    IF parts = <<>> THEN None
    ELSE IF StartsWith(Strip(Head(parts), Whitespace), <<key, "=">>)
         THEN Str(Strip(Split(Head(parts), "=")[2], Whitespace))
         ELSE ExtractFrom(Tail(parts), key)

\* _interpret_dmarc.extract
extract(r, key) == ExtractFrom(Split(r, ";"), key)

\* a plausible slip: only a rejecting subdomain policy counted as enforcement
_interpret_dmarcSpRejectOnly(record) ==
    LET r == Lower(record)
        p == extract(r, "p")
        sp == extract(r, "sp")
        rua == extract(r, "rua")
        result == [exists |-> TRUE, record |-> Str(record), policy |-> p,
                   mode |-> "unknown", valid |-> TRUE, notes |-> <<>>]
    IN  IF p = "reject" THEN [result EXCEPT !.mode = "strict"]
        ELSE IF p = "quarantine" THEN [result EXCEPT !.mode = "enforcing"]
        ELSE IF p = "none"
        THEN LET n1 == IF rua \notin {None, ""} THEN <<"Aggregate reporting enabled">> ELSE <<>>
             IN  IF sp \in {"reject"}
                 THEN [result EXCEPT !.mode = "partial-enforcement",
                                     !.notes = Append(n1, "Subdomain policy enforced")]
                 ELSE [result EXCEPT !.mode = "monitoring", !.notes = n1]
        ELSE [result EXCEPT !.valid = FALSE, !.notes = <<"Invalid DMARC policy">>]

_interpret_dmarc(record) ==
    LET r == Lower(record)
        p == extract(r, "p")
        sp == extract(r, "sp")
        rua == extract(r, "rua")
        result == [exists |-> TRUE, record |-> Str(record), policy |-> p,
                   mode |-> "unknown", valid |-> TRUE, notes |-> <<>>]
    IN  IF p = "reject" THEN [result EXCEPT !.mode = "strict"]
        ELSE IF p = "quarantine" THEN [result EXCEPT !.mode = "enforcing"]
        ELSE IF p = "none"
        THEN LET n1 == IF rua \notin {None, ""} THEN <<"Aggregate reporting enabled">> ELSE <<>>
             IN  IF sp \in {"reject", "quarantine"}
                 THEN [result EXCEPT !.mode = "partial-enforcement",
                                     !.notes = Append(n1, "Subdomain policy enforced")]
                 ELSE [result EXCEPT !.mode = "monitoring", !.notes = n1]
        ELSE [result EXCEPT !.valid = FALSE, !.notes = <<"Invalid DMARC policy">>]

\* the except clause of check_dmarc
DmarcExcept == {"NXDOMAIN", "NoAnswer", "Timeout"}

check_dmarc(answer) ==
    IF answer.rcode \in DmarcExcept
    THEN [exists |-> FALSE, record |-> None, policy |-> None, mode |-> "error", valid |-> FALSE]
    ELSE LET dmarc_record == FirstTxt(answer.rrs, <<"v", "=", "dmarc1">>)
         IN  IF dmarc_record = <<>>
             THEN [exists |-> FALSE, record |-> None, policy |-> None, mode |-> "missing",
                   valid |-> FALSE]
             ELSE _interpret_dmarc(dmarc_record)

RECURSIVE DkimInAnswer(_, _)
\* the inner loop of check_dkim over one selector's answer
DkimInAnswer(rrs, selector) ==
    IF rrs = <<>> THEN <<>>
    ELSE LET txt == Strip(Head(rrs), {Q})
         IN  (IF Contains(<<"v", "=", "dkim1">>, Lower(txt))
              THEN <<[selector |-> selector, record |-> Str(txt)]>> ELSE <<>>)
             \o DkimInAnswer(Tail(rrs), selector)

RECURSIVE DkimProbe(_, _)
\* the outer loop of check_dkim from selector i on; any exception skips the selector
DkimProbe(zone, i) ==
    IF i > Len(COMMON_DKIM_SELECTORS) THEN <<>>
    ELSE (IF zone[i].rcode = "NOERROR"
          THEN DkimInAnswer(zone[i].rrs, COMMON_DKIM_SELECTORS[i]) ELSE <<>>)
         \o DkimProbe(zone, i + 1)

\* the calls of resolve check_dkim makes: none for an enterprise domain, else one
\* for each selector, in the order of the list
DkimQueries(dom, zone) ==
    IF is_enterprise_domain(dom) THEN <<>>
    ELSE [i \in 1..Len(COMMON_DKIM_SELECTORS) |->
            Query(COMMON_DKIM_SELECTORS[i] \o "._domainkey." \o Str(dom), "TXT",
                  zone[i].rcode)]

check_dkim(dom, zone) ==
    IF is_enterprise_domain(dom)
    THEN [exists |-> TRUE,
          records |-> <<"Enterprise provider - DKIM is managed automatically">>,
          valid |-> TRUE, notes |-> <<"Known enterprise provider">>]
    ELSE LET found == DkimProbe(zone, 1)
         IN  IF found # <<>>
             THEN [exists |-> TRUE, records |-> found, valid |-> TRUE]
             ELSE [exists |-> FALSE, records |-> <<>>, valid |-> FALSE,
                   notes |-> <<"No DKIM selectors found">>]

\* check_mx.blocked_hosts
blocked_hosts ==
    {"smtp.google.com", "smtp.office365.com", "smtp.mailgun.org", "smtp.sendgrid.net",
     "email-smtp.amazonaws.com"}

RECURSIVE MxRecords(_)
\* the loop of check_mx
MxRecords(rrs) ==
    IF rrs = <<>> THEN <<>>
    ELSE LET server == Str(Lower(RStrip(Head(rrs).exchange, {"."})))
         IN  (IF server \in blocked_hosts THEN <<>>
              ELSE <<[priority |-> Head(rrs).preference, server |-> server]>>)
             \o MxRecords(Tail(rrs))

\* a plausible slip: valid taken from the answer before the relay hosts are dropped
check_mxValidBeforeFilter(answer) ==
    IF answer.rcode # "NOERROR"
    THEN [exists |-> FALSE, records |-> <<>>, count |-> 0, valid |-> FALSE]
    ELSE LET unsorted == MxRecords(answer.rrs)
             records == StableSort(unsorted, [i \in DOMAIN unsorted |-> unsorted[i].priority])
         IN  [exists |-> Len(records) > 0, records |-> records, count |-> Len(records),
              valid |-> Len(answer.rrs) > 0]

check_mx(answer) ==
    IF answer.rcode # "NOERROR"
    THEN [exists |-> FALSE, records |-> <<>>, count |-> 0, valid |-> FALSE]
    ELSE LET unsorted == MxRecords(answer.rrs)
             records == StableSort(unsorted, [i \in DOMAIN unsorted |-> unsorted[i].priority])
         IN  [exists |-> Len(records) > 0, records |-> records, count |-> Len(records),
              valid |-> Len(records) > 0]

-----------------------------------------------------------------------------
(* Request content: Optional[str] email_headers and email_body *)

\* None
NoText == [given |-> FALSE, lex |-> <<>>]

Text(t) == [given |-> TRUE, lex |-> t]

\* Python truth of an Optional[str]: neither None nor ""
Truthy(x) == x.given /\ x.lex # <<>>

\* what an Authentication-Results header reports for one protocol; "" is no report,
\* "fail+pass" a failing and a passing report (two hops)
HeaderStatuses == {"", "pass", "fail", "softfail", "fail+pass"}

Shout(l) ==
    CASE l = "spf" -> "SPF" [] l = "dkim" -> "DKIM" [] l = "dmarc" -> "DMARC"
      [] l = "fail" -> "FAIL" [] l = "pass" -> "Pass" [] OTHER -> l

\* the lexemes reporting status st for protocol proto
AuthResult(proto, st, shout) ==
    LET one(r) == <<" ", IF shout THEN Shout(proto) ELSE proto, "=",
                    IF shout THEN Shout(r) ELSE r, ";">>
    IN  IF st = "" THEN <<>>
        ELSE IF st = "fail+pass" THEN one("fail") \o one("pass")
        ELSE one(st)

AuthResults(s1, s2, s3, shout) ==
    <<"Authentication-Results:", " ", "mx.example.net", ";">>
        \o AuthResult("spf", s1, shout) \o AuthResult("dkim", s2, shout)
        \o AuthResult("dmarc", s3, shout)

Headers ==
    {NoText, Text(<<>>)}
        \cup {Text(AuthResults(s1, s2, s3, shout)) :
                s1 \in HeaderStatuses, s2 \in HeaderStatuses, s3 \in HeaderStatuses,
                shout \in BOOLEAN}

\* config.py Settings.SPAM_KEYWORDS
SPAM_KEYWORDS ==
    <<"click here", "act now", "limited time", "free money",
      "nigerian prince", "winner", "congratulations", "urgent",
      "cash bonus", "risk-free", "satisfaction guaranteed">>

\* the keywords as a shouting mail writes them
ShoutedKeywords ==
    <<"CLICK HERE", "Act Now", "Limited Time", "FREE MONEY",
      "Nigerian Prince", "WINNER", "Congratulations", "URGENT",
      "Cash Bonus", "Risk-Free", "Satisfaction Guaranteed">>

RECURSIVE KeywordRun(_, _)
KeywordRun(k, shout) ==
    IF k = 0 THEN <<>>
    ELSE KeywordRun(k - 1, shout)
            \o <<" ", IF shout THEN ShoutedKeywords[k] ELSE SPAM_KEYWORDS[k]>>

\* a body holding the first k configured keywords (all of them when k is larger)
BodyText(k, shout) ==
    <<"Hello", ",">>
        \o KeywordRun(IF k < Len(SPAM_KEYWORDS) THEN k ELSE Len(SPAM_KEYWORDS), shout)

Bodies ==
    {NoText, Text(<<>>)} \cup {Text(BodyText(k, shout)) : k \in 0..MaxKeywords, shout \in BOOLEAN}

\* the contents a whole scan is driven with
ScanHeaders ==
    {NoText, Text(AuthResults("fail", "fail", "fail", FALSE)),
     Text(AuthResults("pass", "softfail", "", TRUE))}

ScanBodies == {NoText, Text(BodyText(MaxKeywords, TRUE))}

-----------------------------------------------------------------------------
(* app/modules/scoring.py: TrustScorer *)

\* round((score / max_score) * 100, 1), in tenths of a percent
Percentage(score, max_score) == ((score * 2000) \div max_score + 1) \div 2

CategoryScore(score, max_score, details) ==
    [score |-> score, max_score |-> max_score,
     percentage |-> Percentage(score, max_score), details |-> details]

\* SPF scoring (15 points)
SpfAuthentication(spf) ==
    IF spf.exists
    THEN IF spf.valid
         THEN [score |-> 15, details |-> <<"SPF record exists and is properly configured">>]
         ELSE [score |-> 8, details |-> <<"SPF record exists but may need optimization">>]
    ELSE [score |-> 0, details |-> <<"SPF record is missing">>]

\* DKIM scoring (10 points)
DkimAuthentication(dkim) ==
    IF dkim.exists
    THEN [score |-> 10, details |-> <<"DKIM record(s) found">>]
    ELSE [score |-> 0, details |-> <<"DKIM record not found (may require specific selector)">>]

\* a plausible slip: quarantine scored like every other present policy
DmarcAuthenticationRejectOnly(dmarc) ==
    IF dmarc.exists
    THEN IF dmarc.policy = "reject"
         THEN [score |-> 15, details |-> <<"DMARC policy set to reject (best practice)">>]
         ELSE [score |-> 8, details |-> <<"DMARC policy set to none (needs strengthening)">>]
    ELSE [score |-> 0, details |-> <<"DMARC record is missing">>]

\* DMARC scoring (15 points)
DmarcAuthentication(dmarc) ==
    IF dmarc.exists
    THEN IF dmarc.policy = "reject"
         THEN [score |-> 15, details |-> <<"DMARC policy set to reject (best practice)">>]
         ELSE IF dmarc.policy = "quarantine"
         THEN [score |-> 12, details |-> <<"DMARC policy set to quarantine (good)">>]
         ELSE [score |-> 8, details |-> <<"DMARC policy set to none (needs strengthening)">>]
    ELSE [score |-> 0, details |-> <<"DMARC record is missing">>]

calculate_authentication_score(dns) ==
    LET s == SpfAuthentication(dns.spf)
        k == DkimAuthentication(dns.dkim)
        m == DmarcAuthentication(dns.dmarc)
    IN  CategoryScore(s.score + k.score + m.score, 40, s.details \o k.details \o m.details)

\* a plausible rewrite: points by the number of protocols present
AuthenticationCoverageByCount(spf_exists, dkim_exists, dmarc_exists) ==
    LET n == (IF spf_exists THEN 1 ELSE 0) + (IF dkim_exists THEN 1 ELSE 0)
                + (IF dmarc_exists THEN 1 ELSE 0)
    IN  [score |-> 6 * n, details |-> <<"Authentication methods configured">>]

\* a plausible slip: the points of the two middle branches exchanged
AuthenticationCoverageSwapped(spf_exists, dkim_exists, dmarc_exists) ==
    IF spf_exists /\ dkim_exists /\ dmarc_exists
    THEN [score |-> 15, details |-> <<"All authentication methods configured">>]
    ELSE IF spf_exists /\ dmarc_exists
    THEN [score |-> 5, details |-> <<"SPF and DMARC configured">>]
    ELSE IF spf_exists \/ dmarc_exists
    THEN [score |-> 10, details |-> <<"Partial authentication setup">>]
    ELSE [score |-> 0, details |-> <<"Minimal authentication configuration">>]

\* "Check if all authentication methods are present"
AuthenticationCoverage(spf_exists, dkim_exists, dmarc_exists) ==
    IF spf_exists /\ dkim_exists /\ dmarc_exists
    THEN [score |-> 15, details |-> <<"All authentication methods configured">>]
    ELSE IF spf_exists /\ dmarc_exists
    THEN [score |-> 10, details |-> <<"SPF and DMARC configured">>]
    ELSE IF spf_exists \/ dmarc_exists
    THEN [score |-> 5, details |-> <<"Partial authentication setup">>]
    ELSE [score |-> 0, details |-> <<"Minimal authentication configuration">>]

\* "Additional points for strong DMARC"
StrongDmarcBonus(policy) ==
    IF policy \in {"quarantine", "reject"}
    THEN [score |-> 5, details |-> <<"Strong DMARC policy in place">>]
    ELSE [score |-> 0, details |-> <<>>]

\* calculate_domain_health_score on the values it reads
DomainHealth(spf_exists, dkim_exists, dmarc_exists, policy) ==
    LET c == AuthenticationCoverage(spf_exists, dkim_exists, dmarc_exists)
        b == StrongDmarcBonus(policy)
    IN  CategoryScore(c.score + b.score, 20, c.details \o b.details)

calculate_domain_health_score(dns) ==
    DomainHealth(dns.spf.exists, dns.dkim.exists, dns.dmarc.exists, dns.dmarc.policy)

\* a plausible slip: the tier for several servers starts above two
MxTierAboveTwo(mx_count) ==
    IF mx_count > 2
    THEN [score |-> 15,
          details |-> <<"Multiple MX records configured ("
                            \o ToString(mx_count) \o " servers)">>]
    ELSE IF mx_count = 1
    THEN [score |-> 10, details |-> <<"Single MX record configured">>]
    ELSE [score |-> 0, details |-> <<>>]

\* the tiers by mx_count inside "if mx.get('exists')"
MxTier(mx_count) ==
    IF mx_count >= 2
    THEN [score |-> 15,
          details |-> <<"Multiple MX records configured ("
                            \o ToString(mx_count) \o " servers)">>]
    ELSE IF mx_count = 1
    THEN [score |-> 10, details |-> <<"Single MX record configured">>]
    ELSE [score |-> 0, details |-> <<>>]

calculate_sending_setup_score(dns) ==
    LET mx == dns.mx
        tier == MxTier(mx.count)
    IN  IF mx.exists
        THEN CategoryScore(tier.score + 5, 20,
                           tier.details \o <<"MX records properly configured">>)
        ELSE CategoryScore(0, 20, <<"No MX records found - cannot receive email">>)

\* a plausible rewrite: only an explicit fail result is penalised
HeaderCheckFailOnly(headers_lower, proto, label) ==
    IF Contains(<<proto, "=", "pass">>, headers_lower)
    THEN [deduction |-> 0,
          details |-> <<label \o " authentication passed in headers">>,
          risk_factors |-> <<>>]
    ELSE IF Contains(<<proto, "=", "fail">>, headers_lower)
    THEN [deduction |-> 5, details |-> <<>>,
          risk_factors |-> <<label \o " authentication issues in headers">>]
    ELSE [deduction |-> 0, details |-> <<>>, risk_factors |-> <<>>]

\* one "Check for <proto> pass" block of calculate_content_risk_score
HeaderCheck(headers_lower, proto, label) ==
    IF Contains(<<proto, "=", "pass">>, headers_lower)
    THEN [deduction |-> 0,
          details |-> <<label \o " authentication passed in headers">>,
          risk_factors |-> <<>>]
    ELSE IF Contains(<<proto, "=">>, headers_lower)
            /\ ~Contains(<<proto, "=", "pass">>, headers_lower)
    THEN [deduction |-> 5, details |-> <<>>,
          risk_factors |-> <<label \o " authentication issues in headers">>]
    ELSE [deduction |-> 0, details |-> <<>>, risk_factors |-> <<>>]

\* the "if self.headers:" block
HeaderRisk(hdrs) ==
    IF Truthy(hdrs)
    THEN LET headers_lower == Lower(hdrs.lex)
             a == HeaderCheck(headers_lower, "spf", "SPF")
             b == HeaderCheck(headers_lower, "dkim", "DKIM")
             c == HeaderCheck(headers_lower, "dmarc", "DMARC")
         IN  [deduction |-> a.deduction + b.deduction + c.deduction,
              details |-> a.details \o b.details \o c.details,
              risk_factors |-> a.risk_factors \o b.risk_factors \o c.risk_factors]
    ELSE [deduction |-> 0, details |-> <<>>, risk_factors |-> <<>>]

Min(a, b) == IF a < b THEN a ELSE b

Max(a, b) == IF a > b THEN a ELSE b

\* a plausible slip: the cap forgotten
KeywordDeductionUncapped(n) == n * 2

\* "Cap spam keyword penalty"
KeywordDeduction(n) == Min(n * 2, 10)

\* found_spam
FoundSpam(bdy) ==
    LET body_lower == Lower(bdy.lex)
        hit(word) == Contains(<<word>>, body_lower)
    IN  SelectSeq(SPAM_KEYWORDS, hit)

\* a plausible slip: the deduction made without its risk_factors label
BodyRiskUnlabelled(bdy) ==
    IF Truthy(bdy) /\ FoundSpam(bdy) # <<>>
    THEN [deduction |-> KeywordDeduction(Len(FoundSpam(bdy))), risk_factors |-> <<>>]
    ELSE [deduction |-> 0, risk_factors |-> <<>>]

\* the "if self.body:" block
BodyRisk(bdy) ==
    IF Truthy(bdy) /\ FoundSpam(bdy) # <<>>
    THEN [deduction |-> KeywordDeduction(Len(FoundSpam(bdy))),
          risk_factors |-> <<"Potential spam keywords detected: "
                                \o ToString(Len(FoundSpam(bdy)))>>]
    ELSE [deduction |-> 0, risk_factors |-> <<>>]

\* a plausible slip: the floor forgotten
FloorMissing(score) == score

\* "Ensure score doesn't go negative"
Floor(score) == Max(0, score)

calculate_content_risk_score(hdrs, bdy) ==
    LET h == HeaderRisk(hdrs)
        b == BodyRisk(bdy)
        risk_factors == h.risk_factors \o b.risk_factors
        details == h.details
                    \o (IF ~Truthy(hdrs) /\ ~Truthy(bdy)
                        THEN <<"No email content provided for analysis">> ELSE <<>>)
                    \o (IF risk_factors = <<>>
                        THEN <<"No content risk factors detected">> ELSE <<>>)
        score == Floor(20 - h.deduction - b.deduction)
    IN  [score |-> score, max_score |-> 20, percentage |-> Percentage(score, 20),
         details |-> details, risk_factors |-> risk_factors]

\* a plausible slip: the content score left out of the sum
TotalScoreWithoutContent(auth_score, domain_score, sending_score, content_score) ==
    auth_score.score + domain_score.score + sending_score.score

\* total_score of calculate_overall_score
TotalScore(auth_score, domain_score, sending_score, content_score) ==
    auth_score.score + domain_score.score + sending_score.score + content_score.score

calculate_overall_score(dns, hdrs, bdy) ==
    LET auth_score == calculate_authentication_score(dns)
        domain_score == calculate_domain_health_score(dns)
        sending_score == calculate_sending_setup_score(dns)
        content_score == calculate_content_risk_score(hdrs, bdy)
        total_score == TotalScore(auth_score, domain_score, sending_score, content_score)
        max_total == auth_score.max_score + domain_score.max_score
                        + sending_score.max_score + content_score.max_score
    IN  [total_score |-> total_score, max_score |-> max_total,
         trust_percentage |-> Percentage(total_score, max_total),
         authentication |-> auth_score, domain_health |-> domain_score,
         sending_setup |-> sending_score, content_risk |-> content_score]

-----------------------------------------------------------------------------
(* app/modules/actions.py: ActionGenerator *)

Suggestion(priority, category, issue, action, details, impact) ==
    [priority |-> priority, category |-> category, issue |-> issue, action |-> action,
     details |-> details, impact |-> impact]

_is_enterprise_like(dns) ==
    /\ dns.mx.count >= 4
    /\ dns.dkim.valid
    /\ dns.dmarc.mode \in {"partial-enforcement", "enforcing", "strict"}

_check_spf_suggestions(dns) ==
    IF ~dns.spf.exists
    THEN <<Suggestion("critical", "SPF", "No SPF record found",
                      "Add an SPF record to your domain",
                      "SPF prevents senders from spoofing your domain. Add a DNS TXT record like: v=spf1 include:_spf.google.com ~all",
                      "High - Missing SPF reduces inbox trust")>>
    ELSE IF ~dns.spf.valid
    THEN <<Suggestion("high", "SPF", "SPF is configured incorrectly",
                      "Fix your SPF configuration",
                      "Current record: " \o dns.spf.record
                        \o ". Ensure redirect, includes and terminal policy are valid.",
                      "Medium - Broken SPF causes authentication failures")>>
    ELSE <<>>

_check_dkim_suggestions(dns, enterprise) ==
    IF ~dns.dkim.exists
    THEN IF enterprise
         THEN <<Suggestion("info", "DKIM", "DKIM not publicly discoverable",
                           "No action needed",
                           "Enterprise providers may hide selectors intentionally. Authentication is managed internally.",
                           "None")>>
         ELSE <<Suggestion("high", "DKIM", "No DKIM records found",
                           "Enable DKIM signing",
                           "Configure DKIM inside your email provider (Google Workspace, Outlook, etc.)",
                           "High - Missing DKIM hurts sender identity ")>>
    ELSE <<>>

\* a plausible rewrite: nothing advised when the DMARC lookup failed
_check_dmarc_suggestionsSkipError(dns, enterprise) ==
    LET dmarc == dns.dmarc
        policy == dmarc.policy
        mode == dmarc.mode
    IN  IF mode = "error" THEN <<>>
        ELSE IF ~dmarc.exists
        THEN <<Suggestion("critical", "DMARC", "No DMARC policy found",
                          "Add DMARC record",
                          "DMARC protects your domain from spoofing. Recommended: v=DMARC1; p=quarantine; rua=mailto:dmarc@yourdomain.com",
                          "Critical - Missing DMARC breaks protection")>>
        ELSE IF policy = "none"
        THEN IF enterprise /\ mode = "partial-enforcement"
             THEN <<Suggestion("info", "DMARC", "DMARC in monitoring mode",
                               "No change recommended",
                               "This configuration is common in enterprise environments for observability and staged enforcement.",
                               "None")>>
             ELSE <<Suggestion("medium", "DMARC", "DMARC policy not enforcing",
                               "Move to quarantine or reject",
                               "Current DMARC: " \o dmarc.record
                                 \o ". Enforcing policy improves security and trust.",
                               "Medium - Enables domain-level protection")>>
        ELSE IF policy \in {"quarantine", "reject"} /\ enterprise
        THEN <<Suggestion("info", "DMARC", "DMARC policy enforced",
                          "No action needed",
                          "This policy provides strong domain protection.",
                          "None")>>
        ELSE <<>>

\* a plausible slip: an enforced policy acknowledged for every domain
_check_dmarc_suggestionsEnforcedInfo(dns, enterprise) ==
    LET dmarc == dns.dmarc
        policy == dmarc.policy
        mode == dmarc.mode
    IN  IF ~dmarc.exists
        THEN <<Suggestion("critical", "DMARC", "No DMARC policy found",
                          "Add DMARC record",
                          "DMARC protects your domain from spoofing. Recommended: v=DMARC1; p=quarantine; rua=mailto:dmarc@yourdomain.com",
                          "Critical - Missing DMARC breaks protection")>>
        ELSE IF policy = "none"
        THEN IF enterprise /\ mode = "partial-enforcement"
             THEN <<Suggestion("info", "DMARC", "DMARC in monitoring mode",
                               "No change recommended",
                               "This configuration is common in enterprise environments for observability and staged enforcement.",
                               "None")>>
             ELSE <<Suggestion("medium", "DMARC", "DMARC policy not enforcing",
                               "Move to quarantine or reject",
                               "Current DMARC: " \o dmarc.record
                                 \o ". Enforcing policy improves security and trust.",
                               "Medium - Enables domain-level protection")>>
        ELSE IF policy \in {"quarantine", "reject"}
        THEN <<Suggestion("info", "DMARC", "DMARC policy enforced",
                          "No action needed",
                          "This policy provides strong domain protection.",
                          "None")>>
        ELSE <<>>

_check_dmarc_suggestions(dns, enterprise) ==
    LET dmarc == dns.dmarc
        policy == dmarc.policy
        mode == dmarc.mode
    IN  IF ~dmarc.exists
        THEN <<Suggestion("critical", "DMARC", "No DMARC policy found",
                          "Add DMARC record",
                          "DMARC protects your domain from spoofing. Recommended: v=DMARC1; p=quarantine; rua=mailto:dmarc@yourdomain.com",
                          "Critical - Missing DMARC breaks protection")>>
        ELSE IF policy = "none"
        THEN IF enterprise /\ mode = "partial-enforcement"
             THEN <<Suggestion("info", "DMARC", "DMARC in monitoring mode",
                               "No change recommended",
                               "This configuration is common in enterprise environments for observability and staged enforcement.",
                               "None")>>
             ELSE <<Suggestion("medium", "DMARC", "DMARC policy not enforcing",
                               "Move to quarantine or reject",
                               "Current DMARC: " \o dmarc.record
                                 \o ". Enforcing policy improves security and trust.",
                               "Medium - Enables domain-level protection")>>
        ELSE IF policy \in {"quarantine", "reject"} /\ enterprise
        THEN <<Suggestion("info", "DMARC", "DMARC policy enforced",
                          "No action needed",
                          "This policy provides strong domain protection.",
                          "None")>>
        ELSE <<>>

_check_mx_suggestions(dns) ==
    IF ~dns.mx.exists
    THEN <<Suggestion("critical", "MX", "No MX records found", "Set MX records",
                      "MX records enable incoming email delivery.",
                      "Critical - Cannot receive email")>>
    ELSE IF dns.mx.count = 1
    THEN <<Suggestion("low", "MX", "Single MX server", "Add backup MX",
                      "Adding redundancy improves reliability.", "Low")>>
    ELSE <<>>

RECURSIVE Join(_, _)
\* sep.join(parts)
Join(sep, parts) ==
    IF parts = <<>> THEN ""
    ELSE IF Len(parts) = 1 THEN parts[1]
    ELSE parts[1] \o sep \o Join(sep, Tail(parts))

_check_content_suggestions(sc) ==
    LET risks == sc.content_risk.risk_factors
    IN  IF risks # <<>>
        THEN <<Suggestion("medium", "Email Content", "Content risk signals detected",
                          "Review email wording and links", Join(", ", risks),
                          "Medium - Content impacts inbox placement")>>
        ELSE <<>>

\* generate_suggestions.priority_order, with the default of .get(..., 99)
priority_order(priority) ==
    CASE priority = "critical" -> 0
      [] priority = "high" -> 1
      [] priority = "medium" -> 2
      [] priority = "low" -> 3
      [] priority = "info" -> 4
      [] OTHER -> 99

\* a plausible slip: a sort that does not keep equal priorities in order
SortSuggestionsTiesReversed(list) ==
    LET r == [i \in DOMAIN list |-> list[Len(list) + 1 - i]]
    IN  StableSort(r, [i \in DOMAIN r |-> priority_order(r[i].priority)])

\* "Sort suggestions by priority"
SortSuggestions(list) ==
    StableSort(list, [i \in DOMAIN list |-> priority_order(list[i].priority)])

\* the list the checks append to, before the sort
Generated(dns, sc) ==
    LET enterprise_like == _is_enterprise_like(dns)
    IN  _check_spf_suggestions(dns)
            \o _check_dkim_suggestions(dns, enterprise_like)
            \o _check_dmarc_suggestions(dns, enterprise_like)
            \o _check_mx_suggestions(dns)
            \o _check_content_suggestions(sc)

\* a plausible slip: the list of the previous call kept
ResetMissing(self_suggestions) == self_suggestions

\* "self.suggestions = []"
Reset(self_suggestions) == <<>>

\* generate_suggestions on an ActionGenerator whose list is self_suggestions
generate_suggestions_on(self_suggestions, dns, sc) ==
    SortSuggestions(Reset(self_suggestions) \o Generated(dns, sc))

\* generate_suggestions on a new ActionGenerator
generate_suggestions(dns, sc) == generate_suggestions_on(<<>>, dns, sc)

\* a plausible slip: the slice one short
SliceToOneShort(list, n) ==
    IF n >= 0 THEN SubSeq(list, 1, Min(n, Len(list)) - 1)
    ELSE SubSeq(list, 1, Max(0, Len(list) + n))

\* list[:n]
SliceTo(list, n) ==
    IF n >= 0 THEN SubSeq(list, 1, Min(n, Len(list)))
    ELSE SubSeq(list, 1, Max(0, Len(list) + n))

-----------------------------------------------------------------------------
(* The scan, as app/main.py scan_domain runs it, and the calls an          *)
(* ActionGenerator accepts afterwards                                      *)

\* domains handed to DNSChecker
Domains == { <<"example.com">>, <<" ", "Example.COM">>, <<"Mail", ".", "GMail.com">> }

\* limits handed to get_top_suggestions; the default is 5
Limits == -1..MaxLimit

Init ==
    /\ pc = "check_spf"
    /\ domain \in {DNSChecker_init(d) : d \in Domains}
    /\ queries = <<>>
    /\ dns_results = [spf |-> None, dmarc |-> None, dkim |-> None, mx |-> None]
    /\ headers = NoText
    /\ body = NoText
    /\ scores = None
    /\ suggestions = <<>>
    /\ ret = <<>>
    /\ limit = 0

\* check_all: "spf": self.check_spf()
CheckSpf(answers) ==
    /\ pc = "check_spf"
    /\ \E answer \in answers :
          /\ queries' = Append(queries, Query(Str(domain), "TXT", answer.rcode))
          /\ IF Raises(answer, SpfExcept)
             THEN pc' = "raised" /\ UNCHANGED dns_results
             ELSE /\ pc' = "check_dmarc"
                  /\ dns_results' = [dns_results EXCEPT !.spf = check_spf(answer)]
    /\ UNCHANGED <<domain, headers, body, scores, suggestions, ret, limit>>

\* check_all: "dmarc": self.check_dmarc()
CheckDmarc(answers) ==
    /\ pc = "check_dmarc"
    /\ \E answer \in answers :
          /\ queries' = Append(queries,
                               Query("_dmarc." \o Str(domain), "TXT", answer.rcode))
          /\ IF Raises(answer, DmarcExcept)
             THEN pc' = "raised" /\ UNCHANGED dns_results
             ELSE /\ pc' = "check_dkim"
                  /\ dns_results' = [dns_results EXCEPT !.dmarc = check_dmarc(answer)]
    /\ UNCHANGED <<domain, headers, body, scores, suggestions, ret, limit>>

\* check_all: "dkim": self.check_dkim()
CheckDkim(zones) ==
    /\ pc = "check_dkim"
    /\ \E zone \in zones :
          /\ queries' = queries \o DkimQueries(domain, zone)
          /\ dns_results' = [dns_results EXCEPT !.dkim = check_dkim(domain, zone)]
    /\ pc' = "check_mx"
    /\ UNCHANGED <<domain, headers, body, scores, suggestions, ret, limit>>

\* check_all: "mx": self.check_mx()
CheckMx(answers) ==
    /\ pc = "check_mx"
    /\ \E answer \in answers :
          /\ queries' = Append(queries, Query(Str(domain), "MX", answer.rcode))
          /\ dns_results' = [dns_results EXCEPT !.mx = check_mx(answer)]
    /\ pc' = "score"
    /\ UNCHANGED <<domain, headers, body, scores, suggestions, ret, limit>>

ScanSpf == CheckSpf(ScanSpfAnswers)

ScanDmarc == CheckDmarc(ScanDmarcAnswers)

ScanDkim == CheckDkim(ScanDkimZones)

ScanMx == CheckMx(ScanMxAnswers)

\* TrustScorer(dns_results, headers, body).calculate_overall_score(), then
\* ActionGenerator(dns_results, scores)
Score(H, B) ==
    /\ pc = "score"
    /\ \E h \in H, b \in B :
          /\ headers' = h
          /\ body' = b
          /\ scores' = calculate_overall_score(dns_results, h, b)
    /\ suggestions' = <<>>
    /\ pc' = "ready"
    /\ UNCHANGED <<domain, queries, dns_results, ret, limit>>

ScanScore == Score(ScanHeaders, ScanBodies)

\* ActionGenerator.generate_suggestions()
GenerateSuggestions ==
    /\ pc \in {"ready", "generated", "top"}
    /\ suggestions' = generate_suggestions_on(suggestions, dns_results, scores)
    /\ ret' = suggestions'
    /\ pc' = "generated"
    /\ UNCHANGED <<domain, queries, dns_results, headers, body, scores, limit>>

\* ActionGenerator.get_top_suggestions(limit)
GetTopSuggestions ==
    /\ pc \in {"ready", "generated", "top"}
    /\ \E n \in Limits :
          /\ limit' = n
          /\ suggestions' = IF suggestions = <<>>
                            THEN generate_suggestions_on(suggestions, dns_results, scores)
                            ELSE suggestions
          /\ ret' = SliceTo(suggestions', n)
    /\ pc' = "top"
    /\ UNCHANGED <<domain, queries, dns_results, headers, body, scores>>

Next ==
    \/ ScanSpf
    \/ ScanDmarc
    \/ ScanDkim
    \/ ScanMx
    \/ ScanScore
    \/ GenerateSuggestions
    \/ GetTopSuggestions

Spec == Init /\ [][Next]_vars

(* check_all alone, on every answer and every failure of the resolver        *)

LookupSpf == CheckSpf(SpfAnswers)

LookupDmarc == CheckDmarc(DmarcAnswers)

LookupDkim == CheckDkim(DkimZones)

LookupMx == CheckMx(MxAnswers)

NextLookups ==
    \/ LookupSpf
    \/ LookupDmarc
    \/ LookupDkim
    \/ LookupMx

SpecLookups == Init /\ [][NextLookups]_vars

(* The content-risk scorer on every header and body text, for a domain      *)
(* none of whose lookups resolved                                           *)

InitContent ==
    /\ pc = "score"
    /\ domain = DNSChecker_init(<<"example.com">>)
    /\ queries = <<Query(Str(domain), "TXT", "Timeout"),
                   Query("_dmarc." \o Str(domain), "TXT", "NXDOMAIN")>>
                    \o DkimQueries(domain, DkimDarkZone)
                    \o <<Query(Str(domain), "MX", "NoAnswer")>>
    /\ dns_results = [spf |-> check_spf(Failed("Timeout")),
                      dmarc |-> check_dmarc(Failed("NXDOMAIN")),
                      dkim |-> check_dkim(domain, DkimDarkZone),
                      mx |-> check_mx(Failed("NoAnswer"))]
    /\ headers = NoText
    /\ body = NoText
    /\ scores = None
    /\ suggestions = <<>>
    /\ ret = <<>>
    /\ limit = 0

ContentScore == Score(Headers, Bodies)

NextContent == ContentScore

SpecContent == InitContent /\ [][NextContent]_vars

-----------------------------------------------------------------------------
(* Properties of the trust scorer on the facts of a whole scan *)

\* the scores of the scan have been computed
Scored == pc \in {"ready", "generated", "top"}

Categories == {"authentication", "domain_health", "sending_setup", "content_risk"}

\* the maximum the specification gives each category
CategoryMaximum(c) == IF c = "authentication" THEN 40 ELSE 20

\* C1: each of the four category scores returned by calculate_overall_score lies
\* between 0 and its max_score, the maxima are 40/20/20/20, and total_score is the
\* sum of the four category scores, hence between 0 and 100.
C1_ScoresWithinMaxima ==
    Scored =>
        /\ \A c \in Categories :
              /\ scores[c].max_score = CategoryMaximum(c)
              /\ 0 <= scores[c].score
              /\ scores[c].score <= scores[c].max_score
        /\ scores.total_score = scores.authentication.score + scores.domain_health.score
                                    + scores.sending_setup.score + scores.content_risk.score
        /\ 0 <= scores.total_score
        /\ scores.total_score <= 100
        /\ scores.max_score = 100

\* C1 witness: a scan whose content deductions exceed 20 (three failing header
\* results and at least five keywords) beside a full authentication score
C1_Witness ==
    /\ Scored
    /\ scores.content_risk.score = 0
    /\ Len(scores.content_risk.risk_factors) = 4
    /\ scores.authentication.score = 40
    /\ scores.total_score = 80

\* the SPF and DKIM parts of the authentication score for the facts of the scan
SpfDkimPoints ==
    SpfAuthentication(dns_results.spf).score + DkimAuthentication(dns_results.dkim).score

\* the DMARC part of the stored authentication score
DmarcPoints == scores.authentication.score - SpfDkimPoints

\* C2 as stated: the DMARC part is 15 for reject, 12 for quarantine, 10 for mode
\* partial-enforcement, 7 for policy none in plain monitoring, 4 for a present record
\* with an unrecognized or missing policy, 0 for an absent record.
C2_Original ==
    Scored =>
        DmarcPoints =
            (LET d == dns_results.dmarc
             IN  IF ~d.exists THEN 0
                 ELSE IF d.policy = "reject" THEN 15
                 ELSE IF d.policy = "quarantine" THEN 12
                 ELSE IF d.mode = "partial-enforcement" THEN 10
                 ELSE IF d.policy = "none" /\ d.mode = "monitoring" THEN 7
                 ELSE 4)

\* C2 amended: the DMARC part is 15 for policy reject, 12 for policy quarantine, 8
\* for every other present record (policy none in either mode, an unrecognized or a
\* missing policy), and 0 for an absent record.
C2_DmarcPoints ==
    Scored =>
        DmarcPoints =
            (LET d == dns_results.dmarc
             IN  IF ~d.exists THEN 0
                 ELSE IF d.policy = "reject" THEN 15
                 ELSE IF d.policy = "quarantine" THEN 12
                 ELSE 8)

\* C2 witness: a scored record with policy none and an enforced subdomain policy
C2_Witness ==
    /\ Scored
    /\ dns_results.dmarc.exists
    /\ dns_results.dmarc.mode = "partial-enforcement"
    /\ DmarcPoints = 8

\* how many of SPF, DKIM and DMARC are present under the given flags
Present(spf_exists, dkim_exists, dmarc_exists) ==
    (IF spf_exists THEN 1 ELSE 0) + (IF dkim_exists THEN 1 ELSE 0)
        + (IF dmarc_exists THEN 1 ELSE 0)

PresentNow ==
    Present(dns_results.spf.exists, dns_results.dkim.exists, dns_results.dmarc.exists)

\* C3 as stated: 18/12/6/0 points by the number of protocols present, plus 5 for
\* policy quarantine or reject, otherwise plus 3 for mode partial-enforcement, capped
\* at 20.
C3_Original ==
    Scored =>
        scores.domain_health.score =
            Min(20, 6 * PresentNow
                    + (IF dns_results.dmarc.policy \in {"quarantine", "reject"} THEN 5
                       ELSE IF dns_results.dmarc.mode = "partial-enforcement" THEN 3
                       ELSE 0))

\* C3 amended: the domain-health score depends on which protocols are present: 15
\* when SPF, DKIM and DMARC all are, 10 when SPF and DMARC are and DKIM is not, 5
\* when exactly one of SPF and DMARC is (with or without DKIM), 0 when neither is;
\* plus 5 when the DMARC policy is quarantine or reject and nothing for mode
\* partial-enforcement; the sum never exceeds 20.
C3_DomainHealth ==
    Scored =>
        LET s == dns_results.spf.exists
            k == dns_results.dkim.exists
            m == dns_results.dmarc.exists
            base == IF s /\ k /\ m THEN 15
                    ELSE IF s /\ m THEN 10
                    ELSE IF s # m THEN 5
                    ELSE 0
            bonus == IF dns_results.dmarc.policy \in {"quarantine", "reject"} THEN 5 ELSE 0
        IN  /\ scores.domain_health.score = base + bonus
            /\ scores.domain_health.score <= 20

\* C3 witness: DKIM is the only protocol present and earns nothing
C3_Witness ==
    /\ Scored
    /\ dns_results.dkim.exists
    /\ ~dns_results.spf.exists
    /\ ~dns_results.dmarc.exists
    /\ scores.domain_health.score = 0

\* C4: with the DMARC policy held fixed, a setting of the three exists flags with
\* fewer protocols present never scores more domain health than a setting with more
\* protocols present; the scan's own flags and stored score are compared with every
\* other setting, on either side.
C4_DomainHealthMonotonic ==
    Scored =>
        \A s \in BOOLEAN, k \in BOOLEAN, m \in BOOLEAN :
            LET other == DomainHealth(s, k, m, dns_results.dmarc.policy).score
            IN  /\ Present(s, k, m) > PresentNow => scores.domain_health.score <= other
                /\ Present(s, k, m) < PresentNow => other <= scores.domain_health.score

\* C4 witness: two protocols present that score no more than one protocol can
C4_Witness ==
    /\ Scored
    /\ dns_results.spf.exists
    /\ dns_results.dkim.exists
    /\ ~dns_results.dmarc.exists
    /\ scores.domain_health.score = 5
    /\ DomainHealth(TRUE, FALSE, FALSE, dns_results.dmarc.policy).score = 5

\* C5 as stated: the sending-setup score is 20 for a filtered MX count of 5 or more,
\* 15 for 2 to 4, 10 for 1 and 0 for 0.
C5_Original ==
    Scored =>
        scores.sending_setup.score =
            (LET n == dns_results.mx.count
             IN  IF n >= 5 THEN 20 ELSE IF n >= 2 THEN 15 ELSE IF n = 1 THEN 10 ELSE 0)

\* C5 amended: the sending-setup score is a function of the filtered MX count alone:
\* 20 for a count of 2 or more, 15 for a count of 1 and 0 for a count of 0.
C5_SendingSetup ==
    Scored =>
        /\ dns_results.mx.exists = (dns_results.mx.count > 0)
        /\ scores.sending_setup.score =
              (LET n == dns_results.mx.count
               IN  IF n >= 2 THEN 20 ELSE IF n = 1 THEN 15 ELSE 0)

\* C5 witness: two filtered MX hosts already earn the full score
C5_Witness ==
    /\ Scored
    /\ dns_results.mx.count = 2
    /\ scores.sending_setup.score = 20

-----------------------------------------------------------------------------
(* Properties of the content-risk scorer, read off the texts themselves *)

\* the number of configured keywords the body text holds, whatever their case
MatchedKeywords(b) ==
    IF b.given
    THEN Cardinality({k \in DOMAIN SPAM_KEYWORDS :
                        \E j \in DOMAIN b.lex : LowerLex(b.lex[j]) = SPAM_KEYWORDS[k]})
    ELSE 0

\* the header text reports some result for proto
Mentions(h, proto) ==
    /\ h.given
    /\ \E j \in 1..(Len(h.lex) - 1) : LowerLex(h.lex[j]) = proto /\ h.lex[j + 1] = "="

\* the header text reports this result for proto
Reports(h, proto, result) ==
    /\ h.given
    /\ \E j \in 1..(Len(h.lex) - 2) :
          /\ LowerLex(h.lex[j]) = proto
          /\ h.lex[j + 1] = "="
          /\ LowerLex(h.lex[j + 2]) = result

Protocols == {"spf", "dkim", "dmarc"}

\* the protocols the headers report as failed
FailedProtocols(h) == {q \in Protocols : Reports(h, q, "fail")}

\* the protocols the headers report a result for, none of them a pass
UnpassedProtocols(h) == {q \in Protocols : Mentions(h, q) /\ ~Reports(h, q, "pass")}

\* C6 as stated: the keyword deduction is min(8, 2 * matched keywords); without
\* headers the content score is 20 less that deduction.
C6_Original ==
    (Scored /\ ~Truthy(headers)) =>
        scores.content_risk.score = 20 - Min(8, 2 * MatchedKeywords(body))

\* C6 amended: the keyword deduction is min(10, 2 * matched keywords): the content
\* score is 20 less the header deduction less that keyword deduction, floored at 0;
\* it is monotonic non-increasing in the number of matched keywords; the keyword
\* deduction never exceeds 10; 4 matched keywords with no headers give 12.
C6_KeywordDeduction ==
    Scored =>
        LET n == MatchedKeywords(body)
            without == calculate_content_risk_score(headers, NoText).score
        IN  /\ scores.content_risk.score >= 0
            /\ scores.content_risk.score = Max(0, without - Min(10, 2 * n))
            /\ without - scores.content_risk.score <= 10
            /\ (~Truthy(headers) /\ n = 4) => scores.content_risk.score = 12
            /\ \A b \in Bodies :
                  MatchedKeywords(b) >= n =>
                      calculate_content_risk_score(headers, b).score
                          <= scores.content_risk.score

\* C6 witness: six matched keywords and no headers cost 10, not 12 and not 8
C6_Witness ==
    /\ Scored
    /\ ~headers.given
    /\ MatchedKeywords(body) = 6
    /\ scores.content_risk.score = 10

\* C7 as stated: without a body, the content score is 20 less 4 for each of
\* spf=fail, dkim=fail, dmarc=fail found in the headers, and nothing else in the
\* headers is deducted for.
C7_Original ==
    (Scored /\ Truthy(headers) /\ ~Truthy(body)) =>
        scores.content_risk.score = 20 - 4 * Cardinality(FailedProtocols(headers))

\* C7 amended: when header text is supplied, the content-risk score is reduced by
\* exactly 5 for each of SPF, DKIM and DMARC for which the headers hold some result
\* ("spf=", "dkim=", "dmarc=", case-insensitive) and no pass result, each judged
\* independently, at most 15 in total; a protocol with a pass result, with or without
\* a fail result beside it, and a protocol the headers do not mention cause no
\* deduction.  (The score is what remains after the keyword deduction, floored at 0.)
C7_HeaderDeduction ==
    Scored =>
        LET u == Cardinality(UnpassedProtocols(headers))
            without == calculate_content_risk_score(NoText, body).score
        IN  /\ scores.content_risk.score = Max(0, without - 5 * u)
            /\ ~Truthy(body) => scores.content_risk.score = 20 - 5 * u
            /\ 5 * u <= 15

\* C7 witness: SPF fails and passes, DKIM soft-fails, DMARC fails, in capitals, and
\* no body: 10 are deducted
C7_Witness ==
    /\ Scored
    /\ headers = Text(AuthResults("fail+pass", "softfail", "fail", TRUE))
    /\ ~body.given
    /\ scores.content_risk.score = 10

\* the deductions the texts call for: one for each protocol reported without a pass,
\* one for the body when it holds a configured keyword
DeductionsDue(h, b) ==
    Cardinality(UnpassedProtocols(h)) + (IF MatchedKeywords(b) > 0 THEN 1 ELSE 0)

\* C8: risk_factors holds one label for each deduction applied; it is non-empty if
\* and only if the content-risk score is below 20; with neither headers nor body the
\* score is 20 and risk_factors is empty.
C8_RiskFactors ==
    Scored =>
        /\ Len(scores.content_risk.risk_factors) = DeductionsDue(headers, body)
        /\ (scores.content_risk.risk_factors # <<>>) = (scores.content_risk.score < 20)
        /\ (~headers.given /\ ~body.given) =>
              /\ scores.content_risk.score = 20
              /\ scores.content_risk.risk_factors = <<>>

\* C8 witness: three header deductions and a keyword deduction, four labels
C8_Witness ==
    /\ Scored
    /\ Cardinality(UnpassedProtocols(headers)) = 3
    /\ MatchedKeywords(body) = 1
    /\ Len(scores.content_risk.risk_factors) = 4
    /\ scores.content_risk.score = 3

-----------------------------------------------------------------------------
(* Properties of the suggestion list *)

\* the rank the specification gives a priority
Rank(priority) ==
    CASE priority = "critical" -> 0
      [] priority = "high" -> 1
      [] priority = "medium" -> 2
      [] priority = "low" -> 3
      [] priority = "info" -> 4

\* the place of a category in the generation order SPF, DKIM, DMARC, MX, content
GenerationOrder(category) ==
    CASE category = "SPF" -> 1
      [] category = "DKIM" -> 2
      [] category = "DMARC" -> 3
      [] category = "MX" -> 4
      [] category = "Email Content" -> 5

\* C9: the list generate_suggestions returns is sorted by the rank critical < high <
\* medium < low < info, and suggestions of equal priority appear in the generation
\* order SPF, DKIM, DMARC, MX, content.
C9_SortedStable ==
    pc = "generated" =>
        /\ ret = suggestions
        /\ \A i \in DOMAIN ret : ret[i].priority \in {"critical", "high", "medium", "low", "info"}
        /\ \A i \in DOMAIN ret, j \in DOMAIN ret :
              i < j =>
                  /\ Rank(ret[i].priority) <= Rank(ret[j].priority)
                  /\ ret[i].priority = ret[j].priority =>
                        GenerationOrder(ret[i].category) < GenerationOrder(ret[j].category)

\* C9 witness: five suggestions, three of them critical, that the sort had to reorder
C9_Witness ==
    /\ pc = "generated"
    /\ Len(ret) = 5
    /\ ret # Generated(dns_results, scores)
    /\ Cardinality({i \in DOMAIN ret : ret[i].priority = "critical"}) = 3

\* C10: get_top_suggestions(limit), for any limit >= 0 and whether or not
\* generate_suggestions ran before it, returns the first min(limit, n) items of the
\* full sorted list of length n: at most 5 items with the default limit 5, and the
\* whole list when limit exceeds n.
C10_TopIsPrefix ==
    (pc = "top" /\ limit >= 0) =>
        LET full == generate_suggestions(dns_results, scores)
            n == Len(full)
        IN  /\ Len(ret) = Min(limit, n)
            /\ \A i \in DOMAIN ret : ret[i] = full[i]
            /\ limit = 5 => Len(ret) <= 5
            /\ limit > n => ret = full
            /\ suggestions = full

\* C10 witness: a limit of 6 on a full list of 5 suggestions returns the 5
C10_Witness ==
    /\ pc = "top"
    /\ limit = 6
    /\ Len(ret) = 5
    /\ ret = suggestions

-----------------------------------------------------------------------------
(* Properties of the enterprise heuristic *)

\* the priorities of the suggestions a list holds for a category
PrioritiesOf(list, category) ==
    {list[i].priority : i \in {j \in DOMAIN list : list[j].category = category}}

\* the domain of the scan ends with gmail.com
GmailSuffixed == EndsWith(domain, <<"gmail.com">>)

\* C11: when DKIM is absent and the domain is enterprise-like (MX count >= 4, DKIM
\* valid, DMARC mode partial-enforcement, enforcing or strict), generate_suggestions
\* reports the DKIM finding with priority info and not high; in particular the scan
\* of a gmail.com-suffixed domain with MX count 6 and DMARC mode enforcing is
\* enterprise-like and reports its DKIM as info.
C11_EnterpriseDkimInfo ==
    pc = "generated" =>
        /\ (~dns_results.dkim.exists /\ _is_enterprise_like(dns_results)) =>
              PrioritiesOf(ret, "DKIM") = {"info"}
        /\ (GmailSuffixed /\ dns_results.mx.count = 6
                /\ dns_results.dmarc.mode = "enforcing") =>
              /\ _is_enterprise_like(dns_results)
              /\ PrioritiesOf(ret, "DKIM") = {"info"}

-----------------------------------------------------------------------------
(* The domain without any record *)

\* no SPF, no DKIM, no DMARC and no MX record, and no headers or body supplied
NothingFound ==
    /\ ~dns_results.spf.exists
    /\ ~dns_results.dkim.exists
    /\ ~dns_results.dmarc.exists
    /\ ~dns_results.mx.exists
    /\ ~headers.given
    /\ ~body.given

\* the category and priority of every suggestion of a list, in order
Outline(list) == [i \in DOMAIN list |-> <<list[i].category, list[i].priority>>]

\* one critical suggestion each for SPF, DMARC and MX in that order, then one high
\* suggestion for DKIM
NothingFoundOutline ==
    << <<"SPF", "critical">>, <<"DMARC", "critical">>, <<"MX", "critical">>,
       <<"DKIM", "high">> >>

\* C12 as stated: for a domain with no SPF, DKIM, DMARC and MX record and no content
\* supplied, the total score is 0 out of 100 and the suggestions are one critical
\* each for SPF, DMARC and MX in that order followed by one high for DKIM.
C12_Original ==
    (pc = "generated" /\ NothingFound) =>
        /\ scores.total_score = 0
        /\ scores.max_score = 100
        /\ Outline(ret) = NothingFoundOutline

\* C12 amended: for such a domain the total score is 20 out of 100 (authentication,
\* domain health and sending setup 0, content risk 20 because no content was
\* supplied), and the suggestion list is exactly one critical suggestion each for
\* SPF, DMARC and MX in that order followed by one high suggestion for DKIM.
C12_NothingFound ==
    (pc = "generated" /\ NothingFound) =>
        /\ scores.authentication.score = 0
        /\ scores.domain_health.score = 0
        /\ scores.sending_setup.score = 0
        /\ scores.content_risk.score = 20
        /\ scores.total_score = 20
        /\ scores.max_score = 100
        /\ Outline(ret) = NothingFoundOutline

\* C12 witness: the suggestions of a domain whose SPF lookup answered without an SPF
\* record, whose DMARC lookup failed and which has neither DKIM key nor MX host
C12_Witness ==
    /\ pc = "generated"
    /\ NothingFound
    /\ dns_results.spf.notes = <<"No SPF record found">>
    /\ dns_results.dmarc.mode = "error"
    /\ scores.total_score = 20
    /\ Len(ret) = 4
    /\ ret # Generated(dns_results, scores)

-----------------------------------------------------------------------------
(* Properties of the findings of the classifier *)

Findings == {"spf", "dmarc", "dkim", "mx"}

\* the findings check_all has obtained so far
Returned ==
    CASE pc = "check_spf" -> {}
      [] pc = "check_dmarc" -> {"spf"}
      [] pc = "check_dkim" -> {"spf", "dmarc"}
      [] pc = "check_mx" -> {"spf", "dmarc", "dkim"}
      [] pc = "raised" -> IF Len(queries) = 1 THEN {} ELSE {"spf"}
      [] OTHER -> Findings

\* C13: every finding check_spf, check_dmarc, check_dkim and check_mx return, for
\* any resolver outcome, satisfies: exists false implies valid false, and for SPF and
\* DMARC also implies that record is None.
C13_AbsentIsInvalid ==
    \A f \in Returned :
        ~dns_results[f].exists =>
            /\ dns_results[f].valid = FALSE
            /\ f \in {"spf", "dmarc"} => dns_results[f].record = None

\* C13 witness: four absent findings of four different causes: an apex answer
\* without an SPF record, a failed DMARC lookup, selectors without a DKIM key, and
\* an MX answer that holds an outbound relay only
C13_Witness ==
    /\ Returned = Findings
    /\ \A f \in Findings : ~dns_results[f].exists
    /\ dns_results.spf.notes = <<"No SPF record found">>
    /\ dns_results.dmarc.mode = "error"
    /\ queries[Len(queries)].rcode = "NOERROR"

-----------------------------------------------------------------------------
(* Failed lookups *)

\* the logged calls for a name and a record type
QueriesFor(qname, rdtype) ==
    {i \in DOMAIN queries : queries[i].qname = qname /\ queries[i].rdtype = rdtype}

\* a logged call for the name and type ended in a timeout, NXDOMAIN or no answer
LookupFailed(qname, rdtype) ==
    \E i \in QueriesFor(qname, rdtype) : queries[i].rcode \in DnsErrors

\* the name probed for a DKIM selector
SelectorName(selector) == selector \o "._domainkey." \o Str(domain)

\* the selectors of the list, as a set
Selectors == {COMMON_DKIM_SELECTORS[i] : i \in DOMAIN COMMON_DKIM_SELECTORS}

\* every lookup made so far either answered or ended in a timeout, NXDOMAIN or no
\* answer
OnlyListedFailures ==
    \A i \in DOMAIN queries : queries[i].rcode \in DnsErrors \cup {"NOERROR"}

\* C14: when any subset of the lookups of a scan (the SPF TXT, the DMARC TXT, each
\* DKIM selector TXT, the MX lookup) fails with a timeout, NXDOMAIN or no answer,
\* check_all raises no error and returns all four findings; a failed SPF, DMARC or
\* MX lookup gives a finding with exists false, a failed selector lookup gives no
\* DKIM record for that selector, and DKIM is absent when every selector lookup
\* failed; no name is looked up twice.
C14_FailuresAreAbsence ==
    /\ OnlyListedFailures => pc # "raised"
    /\ pc \notin {"check_spf", "check_dmarc", "check_dkim", "check_mx", "raised"} =>
          /\ Returned = Findings
          /\ \A f \in Findings : dns_results[f].exists \in BOOLEAN
          /\ QueriesFor(Str(domain), "TXT") # {}
          /\ QueriesFor("_dmarc." \o Str(domain), "TXT") # {}
          /\ QueriesFor(Str(domain), "MX") # {}
    /\ ("spf" \in Returned /\ LookupFailed(Str(domain), "TXT")) =>
          ~dns_results.spf.exists
    /\ ("dmarc" \in Returned /\ LookupFailed("_dmarc." \o Str(domain), "TXT")) =>
          ~dns_results.dmarc.exists
    /\ "dkim" \in Returned =>
          /\ \A sel \in Selectors :
                LookupFailed(SelectorName(sel), "TXT") =>
                    \A i \in DOMAIN dns_results.dkim.records :
                        dns_results.dkim.records[i].selector # sel
          /\ (\A sel \in Selectors : LookupFailed(SelectorName(sel), "TXT")) =>
                ~dns_results.dkim.exists
    /\ ("mx" \in Returned /\ LookupFailed(Str(domain), "MX")) =>
          /\ ~dns_results.mx.exists
          /\ dns_results.mx.count = 0
    /\ \A i \in DOMAIN queries, j \in DOMAIN queries :
          (queries[i].qname = queries[j].qname /\ queries[i].rdtype = queries[j].rdtype)
              => i = j
    /\ Len(queries) <= 3 + Len(COMMON_DKIM_SELECTORS)

\* C14 witness: a scan all of whose twelve lookups failed, one kind of failure
\* after the other, and that returned four absent findings
C14_Witness ==
    /\ pc = "score"
    /\ Len(queries) = 3 + Len(COMMON_DKIM_SELECTORS)
    /\ \A i \in DOMAIN queries : queries[i].rcode \in DnsErrors
    /\ {queries[i].rcode : i \in DOMAIN queries} = DnsErrors
    /\ \A f \in Findings : ~dns_results[f].exists

-----------------------------------------------------------------------------
(* Properties of the DMARC finding, read off the text of the record *)

\* the TXT string the finding's record was taken from
TxtOf(record) == CHOOSE t \in DmarcTxt : Str(Strip(t, {Q})) = record

\* the places of txt where the tag key is given a value
TagPlaces(txt, key) ==
    {j \in 1..(Len(txt) - 2) : LowerLex(txt[j]) = key /\ txt[j + 1] = "="}

\* the value the first tag key of txt has, in lower case; None without such a tag
TagValue(txt, key) ==
    IF TagPlaces(txt, key) = {} THEN None
    ELSE LET j == CHOOSE k \in TagPlaces(txt, key) : \A l \in TagPlaces(txt, key) : k <= l
         IN  LowerLex(txt[j + 2])

\* the mode the specification derives from p and sp
ModeOf(p, sp) ==
    IF p = "reject" THEN "strict"
    ELSE IF p = "quarantine" THEN "enforcing"
    ELSE IF p = "none"
    THEN IF sp \in {"reject", "quarantine"} THEN "partial-enforcement" ELSE "monitoring"
    ELSE "unknown"

\* the mode of the finding follows from the p and sp of its record alone, and the
\* finding is invalid with mode unknown exactly when the record exists with a p
\* that is missing or none of reject, quarantine, none
ModeFollowsPolicy ==
    LET d == dns_results.dmarc
    IN  IF d.exists
        THEN LET p == TagValue(TxtOf(d.record), "p")
                 sp == TagValue(TxtOf(d.record), "sp")
             IN  /\ d.policy = p
                 /\ d.mode = ModeOf(p, sp)
                 /\ d.valid = (p \in {"reject", "quarantine", "none"})
                 /\ (d.mode = "unknown") = (p \notin {"reject", "quarantine", "none"})
        ELSE /\ d.mode \in {"missing", "error"}
             /\ ~d.valid

\* C15 as stated: mode follows from p and sp alone, and a record with an rua tag
\* carries the aggregate-reporting note.
C15_Original ==
    "dmarc" \in Returned =>
        /\ ModeFollowsPolicy
        /\ dns_results.dmarc.exists =>
              (TagValue(TxtOf(dns_results.dmarc.record), "rua") # None =>
                  \E i \in DOMAIN dns_results.dmarc.notes :
                      dns_results.dmarc.notes[i] = "Aggregate reporting enabled")

\* C15 amended: for every DMARC finding the classifier returns, mode is determined
\* by the parsed p and sp alone: strict iff p=reject, enforcing iff p=quarantine,
\* partial-enforcement iff p=none and sp is reject or quarantine, monitoring iff
\* p=none and sp is neither, and unknown with valid false iff a record exists whose
\* p is missing or another value; an rua tag adds the aggregate-reporting note only
\* when p=none, and never changes mode or valid.
C15_ModeFromPolicy ==
    "dmarc" \in Returned =>
        /\ ModeFollowsPolicy
        /\ dns_results.dmarc.exists =>
              LET txt == TxtOf(dns_results.dmarc.record)
                  noted == \E i \in DOMAIN dns_results.dmarc.notes :
                              dns_results.dmarc.notes[i] = "Aggregate reporting enabled"
              IN  noted = (TagValue(txt, "p") = "none" /\ TagValue(txt, "rua") # None)

\* C15 witness: p=none with a rejecting subdomain policy and an rua tag:
\* partial-enforcement, valid, with both notes
C15_Witness ==
    /\ "dmarc" \in Returned
    /\ dns_results.dmarc.exists
    /\ TagValue(TxtOf(dns_results.dmarc.record), "sp") = "reject"
    /\ TagValue(TxtOf(dns_results.dmarc.record), "rua") # None
    /\ dns_results.dmarc.mode = "partial-enforcement"
    /\ dns_results.dmarc.valid
    /\ Len(dns_results.dmarc.notes) = 2

-----------------------------------------------------------------------------
(* Properties of the DMARC rule of the suggestion engine *)

\* the facts of the scan make the domain enterprise-like
EnterpriseLike ==
    /\ dns_results.mx.count >= 4
    /\ dns_results.dkim.valid
    /\ dns_results.dmarc.mode \in {"partial-enforcement", "enforcing", "strict"}

\* the priorities of the DMARC suggestions of the returned list, in order
DmarcPriorities ==
    LET picked == SelectSeq([i \in DOMAIN ret |-> <<ret[i].category, ret[i].priority>>],
                            LAMBDA e : e[1] = "DMARC")
    IN  [i \in DOMAIN picked |-> picked[i][2]]

\* C16: the DMARC rule of generate_suggestions emits a critical suggestion when
\* DMARC is absent; for policy none an info suggestion when the domain is
\* enterprise-like and mode is partial-enforcement and a medium suggestion
\* otherwise; for policy quarantine or reject an info suggestion when the domain is
\* enterprise-like and no DMARC suggestion otherwise.
C16_DmarcRule ==
    pc = "generated" =>
        LET d == dns_results.dmarc
        IN  /\ ~d.exists => DmarcPriorities = <<"critical">>
            /\ (d.exists /\ d.policy = "none") =>
                  DmarcPriorities =
                      IF EnterpriseLike /\ d.mode = "partial-enforcement"
                      THEN <<"info">> ELSE <<"medium">>
            /\ (d.exists /\ d.policy \in {"quarantine", "reject"}) =>
                  DmarcPriorities = IF EnterpriseLike THEN <<"info">> ELSE <<>>

\* C16 witness: policy none beside an enforced subdomain policy, on an
\* enterprise-like domain that is not on the provider list: one info suggestion
C16_Witness ==
    /\ pc = "generated"
    /\ ~GmailSuffixed
    /\ EnterpriseLike
    /\ dns_results.dmarc.policy = "none"
    /\ dns_results.dmarc.mode = "partial-enforcement"
    /\ DmarcPriorities = <<"info">>

-----------------------------------------------------------------------------
(* No record and failed lookup, downstream *)

\* the facts of the scan with the other of the two modes of an absent DMARC record
ModeTwin ==
    [dns_results EXCEPT !.dmarc.mode = IF @ = "missing" THEN "error" ELSE "missing"]

\* C17: a DMARC finding with mode missing and one with mode error are treated
\* alike downstream: on the facts of the scan with the mode exchanged and the same
\* headers and body, calculate_overall_score returns the four category scores and
\* the total the scan has, and generate_suggestions the suggestion list it has.
C17_MissingLikeError ==
    (Scored /\ dns_results.dmarc.mode \in {"missing", "error"}) =>
        LET twin_scores == calculate_overall_score(ModeTwin, headers, body)
        IN  /\ ModeTwin # dns_results
            /\ \A c \in Categories : scores[c] = twin_scores[c]
            /\ scores.total_score = twin_scores.total_score
            /\ scores = twin_scores
            /\ pc \in {"generated", "top"} =>
                  suggestions = generate_suggestions(ModeTwin, twin_scores)
            /\ pc = "generated" => ret = generate_suggestions(ModeTwin, twin_scores)

\* C17 witness: the suggestions of a scan whose DMARC lookup failed, for a domain
\* with four or more MX hosts, a DKIM key and header results
C17_Witness ==
    /\ pc = "generated"
    /\ dns_results.dmarc.mode = "error"
    /\ dns_results.mx.count >= 4
    /\ dns_results.dkim.valid
    /\ Truthy(headers)
    /\ \E i \in DOMAIN ret : ret[i].category = "DMARC" /\ ret[i].priority = "critical"

-----------------------------------------------------------------------------
(* Repeated calls on one ActionGenerator *)

\* the categories a suggestion can have
SuggestionCategories == {"SPF", "DKIM", "DMARC", "MX", "Email Content"}

\* C18: after any sequence of generate_suggestions and get_top_suggestions calls on
\* one ActionGenerator, the stored list holds at most one suggestion for each of the
\* categories SPF, DKIM, DMARC, MX and Email Content, hence at most 5 entries, and
\* is the list a single generate_suggestions call produces.
C18_NoAccumulation ==
    pc \in {"generated", "top"} =>
        /\ \A i \in DOMAIN suggestions : suggestions[i].category \in SuggestionCategories
        /\ \A c \in SuggestionCategories :
              Cardinality({i \in DOMAIN suggestions : suggestions[i].category = c}) <= 1
        /\ Len(suggestions) <= 5
        /\ suggestions = generate_suggestions(dns_results, scores)

\* C18 witness: generate_suggestions has returned on an object that had served
\* get_top_suggestions(6) before, and the stored list holds one suggestion for each
\* of the five categories
C18_Witness ==
    /\ pc = "generated"
    /\ limit = 6
    /\ Len(suggestions) = 5
    /\ {suggestions[i].category : i \in DOMAIN suggestions} = SuggestionCategories

====
